---- MODULE Spec2Model ----
(***************************************************************************)
(* Model of simple_animation/swm_matplotlib.py: class SWM, the reduced     *)
(* gravity shallow water model.  The constructor runs update_params,       *)
(* setup_mesh, initial_conditions, operators and initialize_matrix in      *)
(* that order; afterwards the driver calls time_step repeatedly.           *)
(*                                                                         *)
(* numpy arrays are functions on 0..len-1 (numpy's own indexing).  A 2-D   *)
(* array of shape (rows, cols) is a function of the row giving a function  *)
(* of the column.  Floating point values are kept only as far as the       *)
(* indexing code can tell them apart: integers, with 0 for exact zero.     *)
(***************************************************************************)
EXTENDS Integers, FiniteSets, TLC

(* ------------------------------ bounds -------------------------------- *)

\* grids nx, ny in 1..MaxN are explored in full
MaxN == 4
\* one grid with more cells than the column slice of SWM.operators keeps
OversizeNx == 102
OversizeNy == 101
\* number of time_step calls that return normally in one run
MaxSteps == 3
\* the cached solve returns the vectors i |-> a*(i+1) + b, a in 0..MaxSlope,
\* b in -MaxOffset..MaxOffset
MaxSlope == 2
MaxOffset == 2

(* ------------------------- program constants -------------------------- *)

\* lat = Int(30)
DefaultLat == 30
\* the literal column slice in  I[ie.flatten('F'), :10201]
ColCap == 10201

(* --------------------------- numpy helpers ---------------------------- *)

\* len(a)
Size(a) == Cardinality(DOMAIN a)

Range(a) == {a[i] : i \in DOMAIN a}

Min(a, b) == IF a <= b THEN a ELSE b

\* np.zeros(len)
Zeros(len) == [k \in 0..(len - 1) |-> 0]

\* np.zeros(shape) for a 2-D shape
Zeros2(rows, cols) == [r \in 0..(rows - 1) |-> [c \in 0..(cols - 1) |-> 0]]

\* M.flatten(): C order, the column index runs fastest
Flatten(M, rows, cols) ==
    [k \in 0..(rows * cols - 1) |-> M[k \div cols][k % cols]]

\* a.reshape((rows, cols)) of a flat array, C order
Reshape(a, rows, cols) ==
    [r \in 0..(rows - 1) |-> [c \in 0..(cols - 1) |-> a[r * cols + c]]]

\* np.hstack([a, b])
HStack(a, b) ==
    LET la == Size(a)
    IN  [k \in 0..(la + Size(b) - 1) |-> IF k < la THEN a[k] ELSE b[k - la]]

\* np.hstack([a, b, c])
HStack3(a, b, c) == HStack(HStack(a, b), c)

\* elementwise product of two 1-D arrays of one length
EltMul(a, b) == [k \in DOMAIN a |-> a[k] * b[k]]

\* np.nonzero(a)[0]: the indices of the nonzero entries, increasing
NonZero(a) ==
    LET S == {k \in DOMAIN a : a[k] # 0}
    IN  [i \in 0..(Cardinality(S) - 1) |->
            CHOOSE k \in S : Cardinality({j \in S : j < k}) = i]

\* a[idx] for an index array idx
Take(a, idx) == [i \in DOMAIN idx |-> a[idx[i]]]

\* a[idx] = vals, in place: the entries named by idx are overwritten in
\* the order of idx, all others are kept
FancyAssign(a, idx, vals) ==
    [k \in DOMAIN a |->
        IF \E i \in DOMAIN idx : idx[i] = k
        THEN LET last == CHOOSE i \in DOMAIN idx :
                            /\ idx[i] = k
                            /\ \A j \in DOMAIN idx : idx[j] = k => j <= i
             IN  vals[last]
        ELSE a[k]]

\* the same assignment with every index one too high (1-based indices
\* carried into 0-based arrays), wrapping at the end
SetAtOneBased(a, idx, vals) ==
    FancyAssign(a, [i \in DOMAIN idx |-> (idx[i] + 1) % Size(a)], vals)

SetAt(a, idx, vals) == FancyAssign(a, idx, vals)

(* ------------------------ sparse selections --------------------------- *)

\* ii = np.arange(n).reshape(nx, ny, order='F'): shape (nx, ny), the first
\* index runs fastest
IndexGrid(gx, gy) == [i \in 0..(gx - 1) |-> [j \in 0..(gy - 1) |-> i + gx * j]]

\* np.roll(M, shift, axis) of a 2-D array of shape (rows, cols)
Roll(M, shift, axis, rows, cols) ==
    [i \in 0..(rows - 1) |-> [j \in 0..(cols - 1) |->
        IF axis = 0 THEN M[(i - shift) % rows][j]
                    ELSE M[i][(j - shift) % cols]]]

\* M.flatten('F'): the first index runs fastest
FlattenF(M, rows, cols) ==
    [k \in 0..(rows * cols - 1) |-> M[k % rows][k \div rows]]

\* I[rowidx, :ColCap] for the n-by-n identity I: row k holds a single 1 in
\* column rowidx[k], unless the slice cut that column off (idx = -1)
RowSelect(n, rowidx) ==
    LET kept == Min(n, ColCap)
    IN  [rows |-> Size(rowidx),
         cols |-> kept,
         idx  |-> [k \in DOMAIN rowidx |->
                      IF rowidx[k] < kept THEN rowidx[k] ELSE -1]]

\* the four shifted index grids of SWM.operators
ie(gx, gy)  == Roll(IndexGrid(gx, gy), -1, 1, gx, gy)
iw(gx, gy)  == Roll(IndexGrid(gx, gy), 1, 1, gx, gy)
iin(gx, gy) == Roll(IndexGrid(gx, gy), -1, 0, gx, gy)
iis(gx, gy) == Roll(IndexGrid(gx, gy), 1, 0, gx, gy)

IEmat(gx, gy) == RowSelect(gx * gy, FlattenF(ie(gx, gy), gx, gy))
IWmat(gx, gy) == RowSelect(gx * gy, FlattenF(iw(gx, gy), gx, gy))
INmat(gx, gy) == RowSelect(gx * gy, FlattenF(iin(gx, gy), gx, gy))
ISmat(gx, gy) == RowSelect(gx * gy, FlattenF(iis(gx, gy), gx, gy))

RECURSIVE SumOver(_, _)
SumOver(S, x) ==
    IF S = {} THEN 0
    ELSE LET k == CHOOSE e \in S : TRUE IN x[k] + SumOver(S \ {k}, x)

\* x * M for a 1-D array x on the left of a sparse matrix: scipy's __rmul__
\* computes (M.T * x.T).T, entry j sums x over the rows whose 1 is in
\* column j
RMatVec(x, M) ==
    [j \in 0..(M.cols - 1) |->
        SumOver({k \in 0..(M.rows - 1) : M.idx[k] = j}, x)]

\* A - B (or A + B) of two sparse matrices needs equal shapes
SameShape(A, rows, cols) == A.rows = rows /\ A.cols = cols

(* ------------------------------ fields -------------------------------- *)

\* msk = ones((ny, nx)); msk[:,-1] = 0; msk[-1,:] = 0
LandSeaMask(gx, gy) ==
    [r \in 0..(gy - 1) |-> [c \in 0..(gx - 1) |->
        IF c = gx - 1 \/ r = gy - 1 THEN 0 ELSE 1]]

\* h0 = 10*exp(-((Xh-Lx/2)**2 + (Yh-Ly/2)**2)/Rd**2) on the h-points: a
\* bump that is largest in the middle of the domain and strictly positive
\* at every cell.  Kept: the sign and the ordering, as whole numbers.
InitialThickness(gx, gy) ==
    [r \in 0..(gy - 1) |-> [c \in 0..(gx - 1) |->
        1 + Min(c, gx - 1 - c) + Min(r, gy - 1 - r)]]

\* f0 = 2*Omega*sin(pi*lat/180) compares equal to 0 only at lat = 0
\* (sin of a nonzero multiple of the rounded pi is not 0 in floating point)
F0IsZero(la) == la = 0

(* ------------------------------ state --------------------------------- *)

VARIABLES
    nx, ny, lat,        \* traits of the instance: grid size, reference latitude
    pc,                 \* the constructor call that runs next, "ready", or
                        \* the exception that ended construction
    gp,                 \* which reduced gravity formula update_params used
    msk, h0, u0, v0,    \* 2-D arrays of shape (ny, nx)
    selfIE, selfIN,     \* self.IE, self.IN
    L,                  \* the 3n-by-3n operator (its shape)
    sbig, s,            \* the padded and the reduced state vector
    ikeep,              \* wet indices into sbig
    ih, iu, iv,         \* wet indices inside the flattened fields
    ihbig, iubig, ivbig,\* wet indices of each field inside sbig
    B,                  \* the explicit matrix on the wet entries (its shape)
    solve,              \* the cached factorization of A (its dimension)
    nfactor,            \* calls of linalg.factorized so far
    h, u, v,            \* flat fields
    Z, U, V,            \* their (ny, nx) views
    steps,              \* time_step calls that returned
    err                 \* how the last time_step call ended

params  == <<nx, ny, lat>>
setup   == <<gp, msk, h0, u0, v0, selfIE, selfIN, L>>
indices == <<ikeep, ih, iu, iv, ihbig, iubig, ivbig>>
solver  == <<B, solve, nfactor>>
state   == <<sbig, s>>
fields  == <<h, u, v, Z, U, V>>
vars    == <<params, pc, setup, indices, solver, state, fields, steps, err>>

NoArray  == << >>
NoMatrix == [rows |-> 0, cols |-> 0]
NoSelect == [rows |-> 0, cols |-> 0, idx |-> << >>]

Grids == ((1..MaxN) \X (1..MaxN)) \cup {<<OversizeNx, OversizeNy>>}

Lats == {0, DefaultLat}

Init ==
    /\ \E g \in Grids : nx = g[1] /\ ny = g[2]
    /\ lat \in Lats
    /\ pc = "update_params"
    /\ gp = "unset"
    /\ msk = NoArray /\ h0 = NoArray /\ u0 = NoArray /\ v0 = NoArray
    /\ selfIE = NoSelect /\ selfIN = NoSelect
    /\ L = NoMatrix
    /\ sbig = NoArray /\ s = NoArray
    /\ ikeep = NoArray
    /\ ih = NoArray /\ iu = NoArray /\ iv = NoArray
    /\ ihbig = NoArray /\ iubig = NoArray /\ ivbig = NoArray
    /\ B = NoMatrix
    /\ solve = [dim |-> -1]
    /\ nfactor = 0
    /\ h = NoArray /\ u = NoArray /\ v = NoArray
    /\ Z = NoArray /\ U = NoArray /\ V = NoArray
    /\ steps = 0
    /\ err = "none"

(* --------------------------- construction ----------------------------- *)

\* update_params: the f0 == 0 branch reads the bare name H, which no scope
\* of the module binds (H is a trait, self.H), so it raises NameError
UpdateParams ==
    /\ pc = "update_params"
    /\ IF F0IsZero(lat)
       THEN pc' = "NameError" /\ gp' = gp
       ELSE pc' = "setup_mesh" /\ gp' = "f0_Rd_squared_over_H"
    /\ UNCHANGED <<params, msk, h0, u0, v0, selfIE, selfIN, L, indices, solver,
                   state, fields, steps, err>>

SetupMesh ==
    /\ pc = "setup_mesh"
    /\ msk' = LandSeaMask(nx, ny)
    /\ pc' = "initial_conditions"
    /\ UNCHANGED <<params, gp, h0, u0, v0, selfIE, selfIN, L, indices, solver,
                   state, fields, steps, err>>

InitialConditions ==
    /\ pc = "initial_conditions"
    /\ h0' = InitialThickness(nx, ny)
    /\ u0' = Zeros2(ny, nx)
    /\ v0' = Zeros2(ny, nx)
    /\ pc' = "operators"
    /\ UNCHANGED <<params, gp, msk, selfIE, selfIN, L, indices, solver,
                   state, fields, steps, err>>

\* operators: DX = (1/dx)*(IE-I) is the first use of the shift matrices and
\* raises ValueError when IE is not n-by-n; otherwise the state vector and
\* L are built and self.IE, self.IN are kept
Operators ==
    /\ pc = "operators"
    /\ LET n == nx * ny
           E == IEmat(nx, ny)
       IN  IF SameShape(E, n, n)
           THEN /\ sbig' = HStack3(Flatten(u0, ny, nx), Flatten(v0, ny, nx),
                                   Flatten(h0, ny, nx))
                /\ L' = [rows |-> 3 * n, cols |-> 3 * n]
                /\ selfIE' = E
                /\ selfIN' = INmat(nx, ny)
                /\ pc' = "initialize_matrix"
           ELSE /\ pc' = "ValueError"
                /\ UNCHANGED <<sbig, L, selfIE, selfIN>>
    /\ UNCHANGED <<params, gp, msk, h0, u0, v0, indices, solver, s,
                   fields, steps, err>>

\* ukeep = msk.flatten()*self.IE*self.msk.flatten(), left to right: the row
\* vector times the matrix, then the elementwise product
UKeep == EltMul(RMatVec(Flatten(msk, ny, nx), selfIE), Flatten(msk, ny, nx))
VKeep == EltMul(RMatVec(Flatten(msk, ny, nx), selfIN), Flatten(msk, ny, nx))
HKeep == Flatten(msk, ny, nx)

\* np.ones in place of np.zeros
OnesField(rows, cols) == [k \in 0..(rows * cols - 1) |-> 1]

\* self.h = np.zeros(self.msk.shape).flatten()
ZeroField(rows, cols) == Flatten(Zeros2(rows, cols), rows, cols)

\* the index variables, the reduced state and the two reduced matrices
\* (lines 148-174), which run whatever the number of wet entries
ReduceSystem ==
    LET n    == nx * ny
        keep == HStack3(UKeep, VKeep, HKeep)
    IN  /\ ikeep' = NonZero(keep)
        /\ s' = Take(sbig, NonZero(keep))
        /\ ih' = NonZero(HKeep)
        /\ iu' = NonZero(UKeep)
        /\ iv' = NonZero(VKeep)
        /\ iubig' = NonZero(HStack3(UKeep, Zeros(n), Zeros(n)))
        /\ ivbig' = NonZero(HStack3(Zeros(n), VKeep, Zeros(n)))
        /\ ihbig' = NonZero(HStack3(Zeros(n), Zeros(n), HKeep))
        /\ B' = [rows |-> Size(ikeep'), cols |-> Size(ikeep')]

\* self.solve = linalg.factorized(A) and the zero fields behind it
Factorize ==
    /\ solve' = [dim |-> Size(ikeep')]
    /\ nfactor' = nfactor + 1
    /\ h' = ZeroField(ny, nx)
    /\ u' = ZeroField(ny, nx)
    /\ v' = ZeroField(ny, nx)
    /\ V' = Reshape(v', ny, nx)
    /\ U' = Reshape(u', ny, nx)
    /\ Z' = Reshape(h', ny, nx)
    /\ pc' = "ready"

\* initialize_matrix.  No line tests for an empty ikeep.  With no wet entry
\* A is 0-by-0; what the sparse library does with it is not fixed by this
\* code: the empty fancy index may raise, factorized may raise, or
\* factorized may return a solver for the empty system.
InitializeMatrix ==
    /\ pc = "initialize_matrix"
    /\ ReduceSystem
    /\ IF Size(ikeep') > 0
       THEN Factorize
       ELSE \/ Factorize
            \/ /\ pc' = "LibraryError"
               /\ nfactor' = nfactor + 1
               /\ UNCHANGED <<solve, fields>>
            \/ /\ pc' = "LibraryError"
               /\ UNCHANGED <<solve, nfactor, fields>>
    /\ UNCHANGED <<params, setup, sbig, steps, err>>

(* ----------------------------- time_step ------------------------------ *)

\* self.solve(rhs): the factorized solver is a library capability; its
\* answers are drawn from a family of vectors of the reduced length whose
\* entries differ from position to position (a > 0) or are all equal
SolveResults(m) ==
    {[i \in 0..(m - 1) |-> a * (i + 1) + b] :
        a \in 0..MaxSlope, b \in (0 - MaxOffset)..MaxOffset}

\* lines 190-197 when the solve returns x
TimeStepReturns(x) ==
    /\ s' = x
    /\ sbig' = SetAt(sbig, ikeep, s')
    /\ u' = SetAt(u, iu, Take(sbig', iubig))
    /\ v' = SetAt(v, iv, Take(sbig', ivbig))
    /\ h' = SetAt(h, ih, Take(sbig', ihbig))
    /\ V' = Reshape(v', ny, nx)
    /\ U' = Reshape(u', ny, nx)
    /\ Z' = Reshape(h', ny, nx)
    /\ steps' = steps + 1
    /\ err' = "none"

\* a solve that raises after the reduced state was already overwritten
SolveRaisesLate ==
    /\ err' = "SolveFailure"
    /\ \E x \in SolveResults(Size(s)) : s' = x
    /\ UNCHANGED <<sbig, fields, steps>>

\* line 190 when the solve raises: the exception leaves time_step before
\* the assignment to self.s
SolveRaises ==
    /\ err' = "SolveFailure"
    /\ UNCHANGED <<state, fields, steps>>

\* a time_step that factorizes A again on every call
TimeStepRefactors ==
    /\ nfactor' = nfactor + 1
    /\ UNCHANGED <<params, pc, setup, indices, B, solve>>

\* what no line of time_step assigns
TimeStepFrame == UNCHANGED <<params, pc, setup, indices, solver>>

TimeStep ==
    /\ pc = "ready"
    /\ steps < MaxSteps
    /\ \/ \E x \in SolveResults(Size(s)) : TimeStepReturns(x)
       \/ SolveRaises
    /\ TimeStepFrame

Next ==
    \/ UpdateParams
    \/ SetupMesh
    \/ InitialConditions
    \/ Operators
    \/ InitializeMatrix
    \/ TimeStep

Spec == Init /\ [][Next]_vars

(* ------------------------------ claims -------------------------------- *)

Ready == pc = "ready"

\* the constructor has returned or raised
Constructed == pc \in {"ready", "NameError", "ValueError", "LibraryError"}

\* operators has run (to its end or to its exception)
OperatorsDone == pc \in {"initialize_matrix", "ready", "ValueError", "LibraryError"}

\* the (row, column) pairs of a field of shape (ny, nx)
Cells == (0..(ny - 1)) \X (0..(nx - 1))

Wet(j) == j \in Range(ikeep)

\* the entry of the output views that belongs to index j of sbig
FieldAt(j) ==
    LET n == nx * ny
        k == j % n
        r == k \div nx
        c == k % nx
    IN  IF j < n THEN U[r][c] ELSE IF j < 2 * n THEN V[r][c] ELSE Z[r][c]

AllLand ==
    /\ msk # NoArray
    /\ \A r \in DOMAIN msk : \A c \in DOMAIN msk[r] : msk[r][c] = 0

\* C1: after construction and after any number of time_step calls, every
\* entry of sbig whose index is not in ikeep is exactly zero (read here on
\* the grids with nx, ny >= 2, which have ocean cells).
C1_DeadEntriesZero ==
    (Ready /\ nx >= 2 /\ ny >= 2) =>
        \A j \in DOMAIN sbig : ~Wet(j) => sbig[j] = 0

\* C2: the h-entry of cell (r, c) is in ikeep iff msk[r, c] = 1; the u-entry
\* iff the cell and its eastward neighbour msk[r, (c+1) mod nx] are ocean;
\* the v-entry iff the cell and its northward neighbour msk[(r+1) mod ny, c]
\* are ocean.
C2_WetClassification ==
    (Ready /\ nx >= 2 /\ ny >= 2) =>
        \A rc \in Cells :
            LET r == rc[1]
                c == rc[2]
                k == r * nx + c
                n == nx * ny
            IN  /\ Wet(2 * n + k) <=> msk[r][c] = 1
                /\ Wet(k) <=> (msk[r][c] = 1 /\ msk[r][(c + 1) % nx] = 1)
                /\ Wet(n + k) <=> (msk[r][c] = 1 /\ msk[(r + 1) % ny][c] = 1)

\* C3: when the mask marks every cell as land, construction ends in a
\* configuration error and the factorization of A is never attempted.
C3_AllLandIsConfigurationError ==
    (AllLand /\ Constructed) => (pc = "ConfigurationError" /\ nfactor = 0)

\* C4: from the end of construction on, U, V, Z hold the current state: at
\* every wet point they equal the entry of s; right after construction Z
\* equals h0 at every ocean cell.
C4_ViewsAreCurrentState ==
    Ready =>
        /\ \A i \in DOMAIN ikeep : FieldAt(ikeep[i]) = s[i]
        /\ steps = 0 =>
              \A rc \in Cells :
                  msk[rc[1]][rc[2]] = 1 => Z[rc[1]][rc[2]] = h0[rc[1]][rc[2]]

\* C5: with at least one wet entry, writing any reduced vector x into the
\* full vector by sbig[ikeep] := x and reading sbig[ikeep] back returns x,
\* whatever sbig held before; the stored pair (sbig, s) is such a pair.
C5_RoundTrip ==
    (Ready /\ Size(ikeep) > 0) =>
        /\ \A x \in SolveResults(Size(ikeep)) :
              Take(SetAt(sbig, ikeep, x), ikeep) = x
        /\ Take(sbig, ikeep) = s

C5_Witness ==
    /\ Ready
    /\ steps >= 1
    /\ Size(ikeep) >= 2
    /\ s[0] # s[1]
    /\ \E j \in DOMAIN sbig : ~Wet(j) /\ sbig[j] # 0

\* C6: the factorization is computed exactly once, during construction, and
\* every time_step leaves msk, L, B, ikeep, the index sets, h0 and the
\* cached solver unchanged.
C6_FactorizedOnce ==
    /\ [](Ready => nfactor = 1)
    /\ [][Ready =>
            UNCHANGED <<msk, L, B, ikeep, iu, iv, ih, iubig, ivbig, ihbig,
                        h0, solve, nfactor>>]_vars

C6_Witness ==
    Ready /\ steps >= 2 /\ nfactor = 1 /\ Size(ikeep) > 0

\* the output fields and the two state vectors agree with one another
Coherent ==
    /\ Take(sbig, ikeep) = s
    /\ steps >= 1 => \A i \in DOMAIN ikeep : FieldAt(ikeep[i]) = s[i]

\* C7: a time_step call in which the solve raises leaves s, sbig, u, v, h,
\* U, V and Z as they were, and the state it leaves mixes no values of
\* different steps.
C7_FailedSolveChangesNothing ==
    /\ [][(Ready /\ err' = "SolveFailure") =>
            UNCHANGED <<s, sbig, u, v, h, U, V, Z>>]_vars
    /\ []((Ready /\ err = "SolveFailure") => Coherent)

C7_Witness ==
    /\ Ready
    /\ err = "SolveFailure"
    /\ steps >= 1
    /\ \E i \in DOMAIN s : s[i] # 0

\* M is an n-by-n permutation: one 1 in every row and in every column
IsPermutation(M, n) ==
    /\ M.rows = n
    /\ M.cols = n
    /\ \A k \in 0..(n - 1) : M.idx[k] \in 0..(n - 1)
    /\ \A k1, k2 \in 0..(n - 1) : M.idx[k1] = M.idx[k2] => k1 = k2

\* P * Q is the identity
IsInverse(P, Q, n) ==
    \A k \in 0..(n - 1) : P.idx[k] \in 0..(n - 1) /\ Q.idx[P.idx[k]] = k

\* C8: for every grid with nx, ny >= 2, whatever n = nx*ny, IE, IW, IN, IS
\* are n-by-n permutations, IW inverts IE, IS inverts IN, and DX, DY are
\* formed without error.
C8_ShiftsArePermutations ==
    (OperatorsDone /\ nx >= 2 /\ ny >= 2) =>
        LET n == nx * ny
        IN  /\ pc # "ValueError"
            /\ IsPermutation(IEmat(nx, ny), n)
            /\ IsPermutation(IWmat(nx, ny), n)
            /\ IsPermutation(INmat(nx, ny), n)
            /\ IsPermutation(ISmat(nx, ny), n)
            /\ IsInverse(IWmat(nx, ny), IEmat(nx, ny), n)
            /\ IsInverse(ISmat(nx, ny), INmat(nx, ny), n)

\* C9: with reference latitude 0 (f0 = 0) update_params completes without
\* error and sets gp by the beta-only fallback Rd^2 * beta / H.
C9_EquatorFallback ==
    (lat = 0 /\ pc # "update_params") =>
        (pc # "NameError" /\ gp = "Rd_squared_beta_over_H")

\* C10: after construction and after any number of time_step calls, Z is 0
\* at every land cell, U is 0 at every u-entry outside iu and V is 0 at
\* every v-entry outside iv.
C10_InactiveOutputsZero ==
    Ready =>
        \A rc \in Cells :
            LET r == rc[1]
                c == rc[2]
                k == r * nx + c
            IN  /\ msk[r][c] = 0 => Z[r][c] = 0
                /\ k \notin Range(iu) => U[r][c] = 0
                /\ k \notin Range(iv) => V[r][c] = 0

C10_Witness ==
    /\ Ready
    /\ steps >= 1
    /\ \E rc \in Cells : msk[rc[1]][rc[2]] = 1 /\ Z[rc[1]][rc[2]] # 0
    /\ \E k \in Range(iu) : u[k] # 0
    /\ \E k \in Range(iv) : v[k] # 0
    /\ \E rc \in Cells : msk[rc[1]][rc[2]] = 0

====
